---------------------------- MODULE Spec2Model ----------------------------
(***************************************************************************)
(* A model of four parts of BuildStream:                                   *)
(*   - SandboxChroot.run and its scoped helpers (sandbox/_sandboxchroot.py)*)
(*   - Project.translate_url (_project.py)                                 *)
(*   - Project.__init__ and Project._load (_project.py)                    *)
(*   - FetchQueue and ArtifactFetchQueue (_scheduler/*.py)                 *)
(* Each part has its own specification (SpecSandbox, SpecUrl, SpecLoad,    *)
(* SpecQueue); the variables of the other parts stay at their initial      *)
(* values.  SpecSched runs the two fetch queues in front of a BUILD queue  *)
(* over a dependency graph, in keep-going mode.                            *)
(***************************************************************************)
EXTENDS Integers, Sequences, FiniteSets, TLC

VARIABLES
    \* ---- SandboxChroot.run ----
    pc,            \* position inside run()
    interactive,   \* flags & SandboxFlags.INTERACTIVE
    readonly,      \* flags & SandboxFlags.ROOT_READ_ONLY
    marks,         \* self._get_marked_directories()
    rootfs,        \* the temporary rootfs: "none", "exists", "removed"
    devfile,       \* what is at each device location of the sandbox directory
    devices,       \* the local list `devices` of create_devices
    devIdx,        \* loop position in `for device in Sandbox.DEVICES`
    mounts,        \* mount points currently mounted, in mount order
    mIdx,          \* position in the mount sequence of mount_dirs
    toUmount,      \* mounts the inner ExitStack of mount_dirs still has to release
    rootRO,        \* the rootfs root is currently remounted read-only
    stdin,         \* "unset", "tty", "devnull", "closed"
    session,       \* "unset", "new", "inherit": start_new_session of the spawn
    stack,         \* contexts entered on run()'s ExitStack, in entry order
    exc,           \* the exception in flight
    status,        \* the exit code of the command, or NoCode
    result,        \* how run() ended
    log,           \* history of the effects of run(), in order
    \* ---- Project.translate_url ----
    aliases,       \* self._aliases
    url,           \* the url given to translate_url
    once,          \* <<translate_url(url)>> once computed, <<>> before
    twice,         \* <<translate_url(translate_url(url))>> once computed
    \* ---- the fetch queues ----
    skip_cached,   \* FetchQueue.skip_cached
    consistency,   \* per element: the consistency of each of its sources
    store,         \* elements whose artifact is in the local artifact store
    remote,        \* elements whose artifact a remote store holds
    cached,        \* per element: the remembered answer of _cached(), or Unknown
    queue,         \* per element: index of the queue holding it
    qstate,        \* per element: "waiting", "inflight", "finished", "failed"
    returncode,    \* per element: return code of its finished job
    doneRan,       \* per element: the done() calls made for it: queue, return
                   \* code given, value returned
    skipped,       \* per element: queues whose skip() returned true for it
    processed,     \* per element: queues whose process() ran for it
    deps,          \* per element: the elements it build-depends on
    blocked,       \* elements reported as blocked by a failed dependency
    \* ---- Project.__init__ / Project._load ----
    loadPc,        \* position inside __init__ / _load
    format_version,            \* the format-version read, or Unread
    plugins,                   \* the plugin origins read so far, in order
    source_format_versions,    \* self._source_format_versions
    element_format_versions,   \* self._element_format_versions
    plugin_source_origins,     \* self._plugin_source_origins
    plugin_element_origins,    \* self._plugin_element_origins
    ref_storage,               \* self._ref_storage
    loadError,                 \* the LoadError raised, or NoLoadError
    registered                 \* the context's list of projects holds this one

sbVars == <<pc, interactive, readonly, marks, rootfs, devfile, devices, devIdx,
            mounts, mIdx, toUmount, rootRO, stdin, session, stack, exc, status,
            result, log>>
urlVars == <<aliases, url, once, twice>>
qVars == <<skip_cached, consistency, store, remote, cached, queue, qstate,
           returncode, doneRan, skipped, processed, deps, blocked>>
ldVars == <<loadPc, format_version, plugins, source_format_versions,
            element_format_versions, plugin_source_origins,
            plugin_element_origins, ref_storage, loadError, registered>>
vars == <<sbVars, urlVars, qVars, ldVars>>

-----------------------------------------------------------------------------
(* Bounds of the model *)

\* at most this many marked directories
MaxMarks == 1
\* exit codes of the command range over 0..MaxExit
MaxExit == 2
\* urls given to translate_url have at most this many characters
MaxUrlLen == 3
\* alias values have at most this many characters
MaxAliasLen == 2
\* an element has at most this many sources
MaxSources == 2
\* the job limit shared by the FETCH-type queues
FetchJobs == 1
\* the job limit shared by the BUILD-type queues
BuildJobs == 1
\* declared format versions range up to this
MaxFormatVersion == 7
\* a project configuration lists at most this many plugin origins
MaxOrigins == 2

-----------------------------------------------------------------------------
(* Sequences helpers *)

Reverse(s) == [i \in 1..Len(s) |-> s[Len(s) + 1 - i]]

Range(s) == {s[i] : i \in 1..Len(s)}

Front(s) == SubSeq(s, 1, Len(s) - 1)

Last(s) == s[Len(s)]

-----------------------------------------------------------------------------
(***************************************************************************)
(* SandboxChroot                                                           *)
(***************************************************************************)

\* Sandbox.DEVICES, the fixed list of device nodes
DEVICES == <<"/dev/null", "/dev/zero", "/dev/random", "/dev/urandom", "/dev/tty">>

\* the marked directories an element may declare
MarkDirs == <<"/buildstream/build", "/buildstream/install", "/buildstream/extra">>

NoExc == [type |-> "None", why |-> ""]
NoCode == -1

ElementError(why) == [type |-> "ElementError", why |-> why]
OSError(why) == [type |-> "OSError", why |-> why]
\* whatever Mount raises when a mount command fails
MountError == [type |-> "MountError", why |-> "mount"]

\* the mount sequence with the host /dev bound whatever the flags are
MountPlan_devAlways(inter, mk) ==
    <<"mount_map", "/", "/dev", "/tmp", "/proc">> \o mk

\* The mount sequence of mount_dirs: mount_map.mounted, '/', '/dev' when
\* interactive, '/tmp', '/proc', then every marked directory.
MountPlan(inter, mk) ==
    <<"mount_map", "/">> \o (IF inter THEN <<"/dev">> ELSE <<>>)
        \o <<"/tmp", "/proc">> \o mk

\* the read-only remount requested whatever the flags are
remount_wanted_always(ro) == TRUE

\* mount_dirs(), line 226: the root is remounted read-only exactly when
\* ROOT_READ_ONLY is among the flags
remount_wanted(ro) == ro

\* mount_src() creates the mount point with os.makedirs before mounting
IsMountSrc(p) == p \in {"/dev", "/tmp", "/proc"}

\* Mount.bind_mount leaving its scope: the mount point is unmounted
bind_mount_exit(ms, p) == SelectSeq(ms, LAMBDA m : m # p)

\* the mount_dirs ExitStack written the way create_devices is written: nothing
\* is released when an exception is in flight
mount_dirs_exit_noUnwind(ms, e) == IF e = NoExc THEN Reverse(ms) ELSE <<>>

\* What the ExitStack of mount_dirs releases when mount_dirs is left with
\* exception e in flight (or NoExc): every mount it entered, last first.
mount_dirs_exit(ms, e) == Reverse(ms)

\* What the code after `yield` in create_devices removes when the context is
\* left with exception e in flight: the generator has no try/finally, so the
\* removal loop only runs when the body completed without an exception.
create_devices_exit(devs, e) == IF e = NoExc THEN devs ELSE <<>>

\* chroot(): the outcome of utils._call mapped to a return or a raise.
\*   out.kind = "exit"     the command was launched and exited with out.code
\*   out.kind = "preexec"  SubprocessError 'Exception occurred in preexec_fn.'
\*   out.kind = "subproc"  any other SubprocessError
\*   out.kind = "oserror"  an OSError of Popen, which chroot() does not catch
chroot(out) ==
    CASE out.kind = "preexec" -> [exc |-> ElementError("chroot"), status |-> NoCode]
      [] out.kind = "subproc" -> [exc |-> ElementError("run"), status |-> NoCode]
      [] out.kind = "oserror" -> [exc |-> OSError("spawn"), status |-> NoCode]
      [] out.kind = "exit" ->
            IF out.code # 0
            THEN [exc |-> ElementError("exit"), status |-> NoCode]
            ELSE [exc |-> NoExc, status |-> out.code]

CallOutcomes ==
    [kind : {"exit"}, code : 0..MaxExit]
        \cup [kind : {"preexec", "subproc", "oserror"}, code : {NoCode}]

\* the device loop leaving a file that is already at the location in place
create_device_noReplace(cur, o) ==
    CASE o = "makedirs" ->
            [file |-> cur, made |-> FALSE, exc |-> OSError("makedirs")]
      [] o = "remove_eperm" ->
            [file |-> cur, made |-> FALSE, exc |-> ElementError("devperm")]
      [] o = "remove_other" ->
            [file |-> cur, made |-> FALSE, exc |-> OSError("remove")]
      [] o = "mknod_perm" ->
            [file |-> cur, made |-> FALSE, exc |-> ElementError("mknodperm")]
      [] o = "mknod_other" ->
            [file |-> cur, made |-> FALSE, exc |-> ElementError("mknod")]
      [] o = "ok" ->
            [file |-> IF cur = "file" THEN "file" ELSE "node",
             made |-> TRUE, exc |-> NoExc]

\* One iteration of the device loop of create_devices for a location whose
\* current content is `cur`, under outcome o of the system calls:
\*   "ok"          everything succeeds
\*   "makedirs"    os.makedirs of the parent directory raises OSError
\*   "remove_eperm" os.remove of an existing file raises OSError, errno 1
\*   "remove_other" os.remove of an existing file raises another OSError
\*   "mknod_perm"  os.mknod raises PermissionError
\*   "mknod_other" os.stat or os.mknod raises another OSError
\* Gives the content of the location afterwards, whether the location was
\* appended to `devices`, and the exception raised.
create_device(cur, o) ==
    CASE o = "makedirs" ->
            [file |-> cur, made |-> FALSE, exc |-> OSError("makedirs")]
      [] o = "remove_eperm" ->
            [file |-> cur, made |-> FALSE, exc |-> ElementError("devperm")]
      [] o = "remove_other" ->
            [file |-> cur, made |-> FALSE, exc |-> OSError("remove")]
      [] o = "mknod_perm" ->
            [file |-> "absent", made |-> FALSE, exc |-> ElementError("mknodperm")]
      [] o = "mknod_other" ->
            [file |-> "absent", made |-> FALSE, exc |-> ElementError("mknod")]
      [] o = "ok" ->
            [file |-> "node", made |-> TRUE, exc |-> NoExc]

\* the outcomes possible for a location whose current content is `cur`:
\* os.remove is only called when something exists at the location
DeviceOutcomes(cur) ==
    {"ok", "makedirs", "mknod_perm", "mknod_other"}
        \cup (IF cur # "absent" THEN {"remove_eperm", "remove_other"} ELSE {})

\* no format-version read yet
Unread == -1

\* a dictionary without keys
EmptyDict == [k \in {} |-> 0]

NoLoadError == [reason |-> "None", detail |-> ""]

\* no project is being loaded
LoadIdle ==
    /\ loadPc = "idle"
    /\ format_version = Unread
    /\ plugins = <<>>
    /\ source_format_versions = EmptyDict
    /\ element_format_versions = EmptyDict
    /\ plugin_source_origins = <<>>
    /\ plugin_element_origins = <<>>
    /\ ref_storage = "None"
    /\ loadError = NoLoadError
    /\ registered = FALSE

UrlIdle ==
    /\ aliases = <<>>
    /\ url = <<>>
    /\ once = <<>>
    /\ twice = <<>>

QueueIdle ==
    /\ skip_cached = FALSE
    /\ consistency = <<>>
    /\ store = {}
    /\ remote = {}
    /\ cached = <<>>
    /\ queue = <<>>
    /\ qstate = <<>>
    /\ returncode = <<>>
    /\ doneRan = <<>>
    /\ skipped = <<>>
    /\ processed = <<>>
    /\ deps = <<>>
    /\ blocked = {}

SandboxIdle ==
    /\ pc = "idle"
    /\ interactive = FALSE
    /\ readonly = FALSE
    /\ marks = <<>>
    /\ rootfs = "none"
    /\ devfile = <<>>
    /\ devices = <<>>
    /\ devIdx = 1
    /\ mounts = <<>>
    /\ mIdx = 1
    /\ toUmount = <<>>
    /\ rootRO = FALSE
    /\ stdin = "unset"
    /\ session = "unset"
    /\ stack = <<>>
    /\ exc = NoExc
    /\ status = NoCode
    /\ result = [how |-> "running"]
    /\ log = <<>>

\* The state when run() is called: flags, marked directories and the content
\* of the sandbox directory are the inputs.
InitSandbox ==
    /\ pc = "tempdir"
    /\ interactive \in BOOLEAN
    /\ readonly \in BOOLEAN
    /\ marks \in {SubSeq(MarkDirs, 1, n) : n \in 0..MaxMarks}
    /\ rootfs = "none"
    /\ devfile \in [Range(DEVICES) -> {"absent", "file"}]
    /\ devices = <<>>
    /\ devIdx = 1
    /\ mounts = <<>>
    /\ mIdx = 1
    /\ toUmount = <<>>
    /\ rootRO = FALSE
    /\ stdin = "unset"
    /\ session = "unset"
    /\ stack = <<>>
    /\ exc = NoExc
    /\ status = NoCode
    /\ result = [how |-> "running"]
    /\ log = <<>>
    /\ UrlIdle
    /\ QueueIdle
    /\ LoadIdle

\* run(), lines 65 and 78: make the runtime root, enter utils._tempdir
run_tempdir ==
    /\ pc = "tempdir"
    /\ \E ok \in BOOLEAN :
        IF ok
        THEN /\ rootfs' = "exists"
             /\ stack' = Append(stack, "tempdir")
             /\ pc' = "devices"
             /\ exc' = exc
        ELSE /\ exc' = OSError("tempdir")
             /\ pc' = "exit"
             /\ UNCHANGED <<rootfs, stack>>
    /\ UNCHANGED <<interactive, readonly, marks, devfile, devices, devIdx, mounts,
                   mIdx, toUmount, rootRO, stdin, session, status, result, log>>
    /\ UNCHANGED <<urlVars, qVars, ldVars>>

\* create_devices(): one iteration of the loop over Sandbox.DEVICES
create_devices_loop ==
    /\ pc = "devices"
    /\ ~interactive
    /\ devIdx <= Len(DEVICES)
    /\ LET d == DEVICES[devIdx] IN
       \E o \in DeviceOutcomes(devfile[d]) :
         LET r == create_device(devfile[d], o) IN
           /\ devfile' = [devfile EXCEPT ![d] = r.file]
           /\ log' = log
                \o (IF devfile[d] = "file" /\ r.file # "file"
                    THEN << <<"remove", d>> >> ELSE <<>>)
                \o (IF r.made THEN << <<"mknod", d>> >> ELSE <<>>)
           /\ IF r.made
              THEN /\ devices' = Append(devices, d)
                   /\ devIdx' = devIdx + 1
                   /\ UNCHANGED <<pc, exc>>
              ELSE /\ exc' = r.exc
                   /\ pc' = "exit"
                   /\ UNCHANGED <<devices, devIdx>>
    /\ UNCHANGED <<interactive, readonly, marks, rootfs, mounts, mIdx, toUmount,
                   rootRO, stdin, session, stack, status, result>>
    /\ UNCHANGED <<urlVars, qVars, ldVars>>

\* create_devices(): reaching `yield`, the context is entered on run()'s stack
create_devices_yield ==
    /\ pc = "devices"
    /\ interactive \/ devIdx > Len(DEVICES)
    /\ stack' = Append(stack, "devices")
    /\ pc' = "mounts"
    /\ UNCHANGED <<interactive, readonly, marks, rootfs, devfile, devices, devIdx,
                   mounts, mIdx, toUmount, rootRO, stdin, session, exc, status,
                   result, log>>
    /\ UNCHANGED <<urlVars, qVars, ldVars>>

\* mount_dirs(): enter the next mount of the sequence; a failing mount (or a
\* failing os.makedirs of mount_src) unwinds the inner ExitStack
mount_dirs_mount ==
    /\ pc = "mounts"
    /\ mIdx <= Len(MountPlan(interactive, marks))
    /\ LET p == MountPlan(interactive, marks)[mIdx] IN
       \E o \in {"ok", "mount"} \cup (IF IsMountSrc(p) THEN {"makedirs"} ELSE {}) :
         IF o = "ok"
         THEN /\ mounts' = Append(mounts, p)
              /\ log' = Append(log, <<"mount", p>>)
              /\ mIdx' = mIdx + 1
              /\ UNCHANGED <<pc, exc, toUmount>>
         ELSE /\ exc' = IF o = "mount" THEN MountError ELSE OSError("makedirs")
              /\ toUmount' = mount_dirs_exit(mounts, exc')
              /\ pc' = "umount"
              /\ UNCHANGED <<mounts, log, mIdx>>
    /\ UNCHANGED <<interactive, readonly, marks, rootfs, devfile, devices, devIdx,
                   rootRO, stdin, session, stack, status, result>>
    /\ UNCHANGED <<urlVars, qVars, ldVars>>

\* mount_dirs(), lines 226-231: remount the root read-only when asked to
mount_dirs_remount ==
    /\ pc = "mounts"
    /\ mIdx = Len(MountPlan(interactive, marks)) + 1
    /\ remount_wanted(readonly)
    /\ \E ok \in BOOLEAN :
         IF ok
         THEN /\ rootRO' = TRUE
              /\ log' = Append(log, <<"remount_ro", "/">>)
              /\ mIdx' = mIdx + 1
              /\ UNCHANGED <<pc, exc, toUmount>>
         ELSE /\ exc' = MountError
              /\ toUmount' = mount_dirs_exit(mounts, exc')
              /\ pc' = "umount"
              /\ UNCHANGED <<rootRO, log, mIdx>>
    /\ UNCHANGED <<interactive, readonly, marks, rootfs, devfile, devices, devIdx,
                   mounts, stdin, session, stack, status, result>>
    /\ UNCHANGED <<urlVars, qVars, ldVars>>

\* mount_dirs(): reaching `yield`, the context is entered on run()'s stack
mount_dirs_yield ==
    /\ pc = "mounts"
    /\ mIdx > Len(MountPlan(interactive, marks))
    /\ remount_wanted(readonly) => mIdx > Len(MountPlan(interactive, marks)) + 1
    /\ stack' = Append(stack, "mounts")
    /\ pc' = "stdin"
    /\ UNCHANGED <<interactive, readonly, marks, rootfs, devfile, devices, devIdx,
                   mounts, mIdx, toUmount, rootRO, stdin, session, exc, status,
                   result, log>>
    /\ UNCHANGED <<urlVars, qVars, ldVars>>

\* the inner ExitStack of mount_dirs releases one mount
umount_step ==
    /\ pc = "umount"
    /\ toUmount # <<>>
    /\ LET p == Head(toUmount) IN
        /\ mounts' = bind_mount_exit(mounts, p)
        /\ log' = Append(log, <<"umount", p>>)
        /\ rootRO' = IF p = "/" THEN FALSE ELSE rootRO
    /\ toUmount' = Tail(toUmount)
    /\ UNCHANGED <<pc, interactive, readonly, marks, rootfs, devfile, devices,
                   devIdx, mIdx, stdin, session, stack, exc, status, result>>
    /\ UNCHANGED <<urlVars, qVars, ldVars>>

\* the inner ExitStack is empty: mount_dirs is left, run()'s stack goes on
umount_done ==
    /\ pc = "umount"
    /\ toUmount = <<>>
    /\ pc' = "exit"
    /\ UNCHANGED <<interactive, readonly, marks, rootfs, devfile, devices, devIdx,
                   mounts, mIdx, toUmount, rootRO, stdin, session, stack, exc,
                   status, result, log>>
    /\ UNCHANGED <<urlVars, qVars, ldVars>>

\* run() opening /dev/null without entering it on the ExitStack
run_stdin_unscoped ==
    /\ pc = "stdin"
    /\ stdin' = IF interactive THEN "tty" ELSE "devnull"
    /\ pc' = "chroot"
    /\ UNCHANGED <<interactive, readonly, marks, rootfs, devfile, devices, devIdx,
                   mounts, mIdx, toUmount, rootRO, session, stack, exc, status,
                   result, log>>
    /\ UNCHANGED <<urlVars, qVars, ldVars>>

\* run(), lines 82-85: choose stdin
run_stdin ==
    /\ pc = "stdin"
    /\ IF interactive
       THEN /\ stdin' = "tty"
            /\ stack' = stack
       ELSE /\ stdin' = "devnull"
            /\ stack' = Append(stack, "stdin")
    /\ pc' = "chroot"
    /\ UNCHANGED <<interactive, readonly, marks, rootfs, devfile, devices, devIdx,
                   mounts, mIdx, toUmount, rootRO, session, exc, status, result,
                   log>>
    /\ UNCHANGED <<urlVars, qVars, ldVars>>

\* run(), lines 87-88: spawn the command in the chroot and wait for it
run_chroot ==
    /\ pc = "chroot"
    /\ \E out \in CallOutcomes :
         /\ exc' = chroot(out).exc
         /\ status' = chroot(out).status
         /\ log' = Append(log, <<"spawn", out>>)
    /\ session' = IF interactive THEN "new" ELSE "inherit"
    /\ pc' = "exit"
    /\ UNCHANGED <<interactive, readonly, marks, rootfs, devfile, devices, devIdx,
                   mounts, mIdx, toUmount, rootRO, stdin, stack, result>>
    /\ UNCHANGED <<urlVars, qVars, ldVars>>

\* run()'s ExitStack closes the /dev/null stdin
exit_stdin ==
    /\ pc = "exit"
    /\ stack # <<>> /\ Last(stack) = "stdin"
    /\ stdin' = "closed"
    /\ stack' = Front(stack)
    /\ UNCHANGED <<pc, interactive, readonly, marks, rootfs, devfile, devices,
                   devIdx, mounts, mIdx, toUmount, rootRO, session, exc, status,
                   result, log>>
    /\ UNCHANGED <<urlVars, qVars, ldVars>>

\* run()'s ExitStack leaves mount_dirs
exit_mounts ==
    /\ pc = "exit"
    /\ stack # <<>> /\ Last(stack) = "mounts"
    /\ toUmount' = mount_dirs_exit(mounts, exc)
    /\ stack' = Front(stack)
    /\ pc' = "umount"
    /\ UNCHANGED <<interactive, readonly, marks, rootfs, devfile, devices, devIdx,
                   mounts, mIdx, rootRO, stdin, session, exc, status, result, log>>
    /\ UNCHANGED <<urlVars, qVars, ldVars>>

\* run()'s ExitStack leaves create_devices, lines 176-177
exit_devices ==
    /\ pc = "exit"
    /\ stack # <<>> /\ Last(stack) = "devices"
    /\ LET gone == create_devices_exit(devices, exc) IN
        /\ devfile' = [d \in DOMAIN devfile |->
                          IF d \in Range(gone) THEN "absent" ELSE devfile[d]]
        /\ log' = log \o [i \in 1..Len(gone) |-> <<"rmnode", gone[i]>>]
    /\ stack' = Front(stack)
    /\ UNCHANGED <<pc, interactive, readonly, marks, rootfs, devices, devIdx,
                   mounts, mIdx, toUmount, rootRO, stdin, session, exc, status,
                   result>>
    /\ UNCHANGED <<urlVars, qVars, ldVars>>

\* the temporary rootfs removed as soon as run() starts to unwind, whatever
\* was entered after it
exit_tempdir_eager ==
    /\ pc = "exit"
    /\ "tempdir" \in Range(stack)
    /\ rootfs' = "removed"
    /\ log' = Append(log, <<"rmtree", "rootfs">>)
    /\ stack' = SelectSeq(stack, LAMBDA c : c # "tempdir")
    /\ UNCHANGED <<pc, interactive, readonly, marks, devfile, devices, devIdx,
                   mounts, mIdx, toUmount, rootRO, stdin, session, exc, status,
                   result>>
    /\ UNCHANGED <<urlVars, qVars, ldVars>>

\* run()'s ExitStack leaves utils._tempdir: the rootfs is removed
exit_tempdir ==
    /\ pc = "exit"
    /\ stack # <<>> /\ Last(stack) = "tempdir"
    /\ rootfs' = "removed"
    /\ log' = Append(log, <<"rmtree", "rootfs">>)
    /\ stack' = Front(stack)
    /\ UNCHANGED <<pc, interactive, readonly, marks, devfile, devices, devIdx,
                   mounts, mIdx, toUmount, rootRO, stdin, session, exc, status,
                   result>>
    /\ UNCHANGED <<urlVars, qVars, ldVars>>

\* run() returns status (line 90) or the exception leaves run()
run_finish ==
    /\ pc = "exit"
    /\ stack = <<>>
    /\ result' = IF exc = NoExc
                 THEN [how |-> "return", value |-> status]
                 ELSE [how |-> "raise", value |-> exc]
    /\ pc' = "done"
    /\ UNCHANGED <<interactive, readonly, marks, rootfs, devfile, devices, devIdx,
                   mounts, mIdx, toUmount, rootRO, stdin, session, stack, exc,
                   status, log>>
    /\ UNCHANGED <<urlVars, qVars, ldVars>>

NextSandbox ==
    \/ run_tempdir
    \/ create_devices_loop
    \/ create_devices_yield
    \/ mount_dirs_mount
    \/ mount_dirs_remount
    \/ mount_dirs_yield
    \/ umount_step
    \/ umount_done
    \/ run_stdin
    \/ run_chroot
    \/ exit_stdin
    \/ exit_mounts
    \/ exit_devices
    \/ exit_tempdir
    \/ run_finish

SpecSandbox == InitSandbox /\ [][NextSandbox]_vars


-----------------------------------------------------------------------------
(***************************************************************************)
(* Project.translate_url                                                   *)
(* A string is a sequence of characters.                                   *)
(***************************************************************************)

\* _ALIAS_SEPARATOR
ALIAS_SEPARATOR == ":"

\* the characters urls and alias values are made of
Alphabet == {"a", "b", ALIAS_SEPARATOR}

Strings(n) == UNION {[1..k -> Alphabet] : k \in 0..n}

\* the alias names a project.conf may define
AliasNames == {<<"a">>, <<"b">>}

\* An entry of self._aliases: the name is absent from the mapping, or it is
\* present with a value, which may be the empty string.
Absent == [defined |-> FALSE, value |-> <<>>]

AliasEntries == {Absent} \cup [defined : {TRUE}, value : Strings(MaxAliasLen)]

\* dict.get(key): the entry, or None (Absent) for a key that is not there
Get(al, key) == IF key \in DOMAIN al THEN al[key] ELSE Absent

\* Python truth of the result of dict.get: None and '' are false
Truthy(entry) == entry.defined /\ entry.value # <<>>

\* position of the first separator of s (s holds one)
FirstSep(s) ==
    CHOOSE i \in 1..Len(s) :
        s[i] = ALIAS_SEPARATOR /\ \A j \in 1..(i - 1) : s[j] # ALIAS_SEPARATOR

\* url.split(_ALIAS_SEPARATOR, 1)
Split1(s) ==
    <<SubSeq(s, 1, FirstSep(s) - 1), SubSeq(s, FirstSep(s) + 1, Len(s))>>

\* translate_url written without the `if alias_url:` test, taking '' for an
\* alias that is not there
translate_url_unchecked(al, u) ==
    IF u # <<>> /\ ALIAS_SEPARATOR \in Range(u)
    THEN Get(al, Split1(u)[1]).value \o Split1(u)[2]
    ELSE u

translate_url(al, u) ==
    IF u # <<>> /\ ALIAS_SEPARATOR \in Range(u)
    THEN LET url_alias == Split1(u)[1]
             url_body == Split1(u)[2]
             alias_url == Get(al, url_alias)
         IN  IF Truthy(alias_url) THEN alias_url.value \o url_body ELSE u
    ELSE u

\* a loaded project and a url handed to translate_url
InitUrl ==
    /\ aliases \in [AliasNames -> AliasEntries]
    /\ url \in Strings(MaxUrlLen)
    /\ once = <<>>
    /\ twice = <<>>
    /\ SandboxIdle
    /\ QueueIdle
    /\ LoadIdle

\* a source resolves its url
TranslateOnce ==
    /\ once = <<>>
    /\ once' = <<translate_url(aliases, url)>>
    /\ UNCHANGED <<aliases, url, twice>>
    /\ UNCHANGED <<sbVars, qVars, ldVars>>

\* the resolved url is handed to translate_url again
TranslateTwice ==
    /\ once # <<>>
    /\ twice = <<>>
    /\ twice' = <<translate_url(aliases, once[1])>>
    /\ UNCHANGED <<aliases, url, once>>
    /\ UNCHANGED <<sbVars, qVars, ldVars>>

NextUrl ==
    \/ TranslateOnce
    \/ TranslateTwice

SpecUrl == InitUrl /\ [][NextUrl]_vars

(***************************************************************************)
(* Properties of Project.translate_url                                     *)
(***************************************************************************)

HasSep(s) == ALIAS_SEPARATOR \in Range(s)

\* C4 as stated: translating a translated url changes nothing, for every
\* url and every alias mapping.
C4_Idempotent ==
    twice # <<>> => twice[1] = once[1]

\* No alias value can itself be read as `<alias>:<body>`: every alias value
\* that is used (non-empty) holds a separator, and the text before its first
\* separator is not the name of an alias that is used.
AliasValuesResolved ==
    \A k \in DOMAIN aliases :
        Truthy(aliases[k]) =>
            /\ HasSep(aliases[k].value)
            /\ ~Truthy(Get(aliases, Split1(aliases[k].value)[1]))

\* C4 amended: translate_url is idempotent for every url when no alias value
\* can itself be read as `<alias>:<body>` (AliasValuesResolved).
C4_IdempotentResolved ==
    (twice # <<>> /\ AliasValuesResolved) => twice[1] = once[1]

\* C4 witness: under such a mapping a url was resolved through an alias and
\* translated again.
C4_Witness ==
    /\ twice # <<>>
    /\ AliasValuesResolved
    /\ once[1] # url

\* C5: the url is split at its first separator only; if the text before it
\* is a defined alias the result is the alias value followed by everything
\* after that separator, otherwise (no separator, empty url, alias not
\* defined) the url is returned unchanged.
C5_FirstColonSplit ==
    once # <<>> =>
        once[1] = IF HasSep(url) /\ Get(aliases, Split1(url)[1]).defined
                  THEN Get(aliases, Split1(url)[1]).value \o Split1(url)[2]
                  ELSE url


-----------------------------------------------------------------------------
(***************************************************************************)
(* Project.__init__ and Project._load                                      *)
(***************************************************************************)

\* The base BuildStream format version
BST_FORMAT_VERSION == 6

\* the format versions a project.conf may declare
FormatVersions == (BST_FORMAT_VERSION - 1)..MaxFormatVersion

\* names of plugin kinds
Kinds == {"git", "autotools"}

\* allowed_origins of _load
allowed_origins == {"core", "local", "pip"}

\* the values of 'origin' a project.conf is drawn with
OriginTypes == {"core", "local", "nonsense"}

\* One entry of the 'plugins' list: its origin type and the kinds it lists
\* under 'sources' and under 'elements' (an absent key lists nothing).
Origins == [origin : OriginTypes, sources : SUBSET Kinds, elements : SUBSET Kinds]

\* The format version an origin declares for the kinds it lists, abstracted
\* by the position of the origin in the 'plugins' list, so that a recorded
\* version tells which origin it was read from.
DeclaredVersion(i) == i

\* values of 'ref-storage'; the first two are ProjectRefStorage.INLINE and
\* ProjectRefStorage.PROJECT_REFS
RefStorages == {"inline", "project.refs", "nonsense"}

LoadError(reason, detail) == [reason |-> reason, detail |-> detail]

\* the version assertion refusing the supported version as well
version_unsupported_orEqual(fv) == BST_FORMAT_VERSION <= fv

\* _load(), line 226: the test of the version assertion
version_unsupported(fv) == BST_FORMAT_VERSION < fv

\* the element kinds looked up in the dictionary of the source kinds
origin_error_oneDict(o, srcKeys, elemKeys) ==
    IF o.origin \notin allowed_origins THEN "origin"
    ELSE IF o.sources \cap srcKeys # {} THEN "dup source"
    ELSE IF o.elements \cap (srcKeys \cup o.sources) # {} THEN "dup element"
    ELSE "none"

\* _load(), lines 243-265: what the loop body raises for origin o when the
\* kinds in srcKeys and elemKeys are already recorded
origin_error(o, srcKeys, elemKeys) ==
    IF o.origin \notin allowed_origins THEN "origin"
    ELSE IF o.sources \cap srcKeys # {} THEN "dup source"
    ELSE IF o.elements \cap elemKeys # {} THEN "dup element"
    ELSE "none"

\* dict[key] = v for every key of keys
Record(dict, keys, v) ==
    [k \in DOMAIN dict \cup keys |-> IF k \in keys THEN v ELSE dict[k]]

\* _store_origin(origin, plugin_group, destination)
store_origin(o, plugin_group, destination) ==
    IF o[plugin_group] # {}
    THEN Append(destination, [origin |-> o.origin, plugins |-> o[plugin_group]])
    ELSE destination

\* Project(directory, context) is being constructed: _load() is about to run
InitLoad ==
    /\ loadPc = "config"
    /\ format_version = Unread
    /\ plugins = <<>>
    /\ source_format_versions = EmptyDict
    /\ element_format_versions = EmptyDict
    /\ plugin_source_origins = <<>>
    /\ plugin_element_origins = <<>>
    /\ ref_storage = "None"
    /\ loadError = NoLoadError
    /\ registered = FALSE
    /\ SandboxIdle
    /\ UrlIdle
    /\ QueueIdle

\* _load(), lines 153-222: the configuration is read, validated and its
\* options are resolved; each of these can raise LoadError
load_config ==
    /\ loadPc = "config"
    /\ \E o \in {"ok", "yaml", "validate", "options"} :
         IF o = "ok"
         THEN /\ loadPc' = "version"
              /\ UNCHANGED loadError
         ELSE /\ loadPc' = "failed"
              /\ loadError' = LoadError(IF o = "yaml" THEN "INVALID_YAML"
                                                       ELSE "INVALID_DATA", o)
    /\ UNCHANGED <<format_version, plugins, source_format_versions,
                   element_format_versions, plugin_source_origins,
                   plugin_element_origins, ref_storage, registered>>
    /\ UNCHANGED <<sbVars, urlVars, qVars>>

\* _load(), lines 224-231: the project version is read and asserted
load_version ==
    /\ loadPc = "version"
    /\ \/ \E fv \in FormatVersions :
            /\ format_version' = fv
            /\ IF version_unsupported(fv)
               THEN /\ loadPc' = "failed"
                    /\ loadError' = LoadError("UNSUPPORTED_PROJECT", "version")
               ELSE /\ loadPc' = "plugins"
                    /\ UNCHANGED loadError
       \/ \* 'format-version' is not an integer
          /\ loadPc' = "failed"
          /\ loadError' = LoadError("INVALID_DATA", "not an integer")
          /\ UNCHANGED format_version
    /\ UNCHANGED <<plugins, source_format_versions, element_format_versions,
                   plugin_source_origins, plugin_element_origins, ref_storage,
                   registered>>
    /\ UNCHANGED <<sbVars, urlVars, qVars>>

\* _load(), lines 235-271: one iteration of `for origin in origins`.  When
\* a duplicate is met the kinds iterated before it are already recorded.
load_plugin_origin ==
    /\ loadPc = "plugins"
    /\ Len(plugins) < MaxOrigins
    /\ \E o \in Origins, valid \in BOOLEAN :
        LET v == DeclaredVersion(Len(plugins) + 1)
            err == origin_error(o, DOMAIN source_format_versions,
                                DOMAIN element_format_versions)
        IN
        /\ plugins' = Append(plugins, o)
        /\ IF ~valid
           THEN \* node_validate: the origin has a key that is not allowed
                /\ loadPc' = "failed"
                /\ loadError' = LoadError("INVALID_DATA", "origin fields")
                /\ UNCHANGED <<source_format_versions, element_format_versions,
                               plugin_source_origins, plugin_element_origins>>
           ELSE
           CASE err = "origin" ->
                /\ loadPc' = "failed"
                /\ loadError' = LoadError("INVALID_YAML", "origin")
                /\ UNCHANGED <<source_format_versions, element_format_versions,
                               plugin_source_origins, plugin_element_origins>>
             [] err = "dup source" ->
                /\ loadPc' = "failed"
                /\ loadError' = LoadError("INVALID_YAML", "dup source")
                /\ \E before \in SUBSET (o.sources \ DOMAIN source_format_versions) :
                     source_format_versions' =
                         Record(source_format_versions, before, v)
                /\ UNCHANGED <<element_format_versions, plugin_source_origins,
                               plugin_element_origins>>
             [] err = "dup element" ->
                /\ loadPc' = "failed"
                /\ loadError' = LoadError("INVALID_YAML", "dup element")
                /\ source_format_versions' =
                       Record(source_format_versions, o.sources, v)
                /\ \E before \in SUBSET (o.elements \ DOMAIN element_format_versions) :
                     element_format_versions' =
                         Record(element_format_versions, before, v)
                /\ UNCHANGED <<plugin_source_origins, plugin_element_origins>>
             [] err = "none" ->
                /\ source_format_versions' =
                       Record(source_format_versions, o.sources, v)
                /\ element_format_versions' =
                       Record(element_format_versions, o.elements, v)
                /\ IF o.origin # "core"
                   THEN /\ plugin_source_origins' =
                               store_origin(o, "sources", plugin_source_origins)
                        /\ plugin_element_origins' =
                               store_origin(o, "elements", plugin_element_origins)
                   ELSE UNCHANGED <<plugin_source_origins, plugin_element_origins>>
                /\ UNCHANGED <<loadPc, loadError>>
    /\ UNCHANGED <<format_version, ref_storage, registered>>
    /\ UNCHANGED <<sbVars, urlVars, qVars>>

\* _load(), line 235: the 'plugins' list is exhausted
load_plugins_end ==
    /\ loadPc = "plugins"
    /\ loadPc' = "settings"
    /\ UNCHANGED <<format_version, plugins, source_format_versions,
                   element_format_versions, plugin_source_origins,
                   plugin_element_origins, ref_storage, loadError, registered>>
    /\ UNCHANGED <<sbVars, urlVars, qVars>>

\* _load(), lines 273-348: factories, aliases, variables, environment,
\* ref-storage and shell options; a value of the wrong type raises LoadError
\* before ("early") or after ("late") ref-storage is read
load_settings ==
    /\ loadPc = "settings"
    /\ \E o \in {"ok", "early", "late"}, rs \in RefStorages :
         CASE o = "early" ->
                /\ loadPc' = "failed"
                /\ loadError' = LoadError("INVALID_DATA", "settings")
                /\ UNCHANGED ref_storage
           [] rs \notin {"inline", "project.refs"} /\ o # "early" ->
                /\ ref_storage' = rs
                /\ loadPc' = "failed"
                /\ loadError' = LoadError("INVALID_DATA", "ref-storage")
           [] OTHER ->
                /\ ref_storage' = rs
                /\ IF o = "late"
                   THEN /\ loadPc' = "failed"
                        /\ loadError' = LoadError("INVALID_DATA", "shell")
                   ELSE /\ loadPc' = "register"
                        /\ UNCHANGED loadError
    /\ UNCHANGED <<format_version, plugins, source_format_versions,
                   element_format_versions, plugin_source_origins,
                   plugin_element_origins, registered>>
    /\ UNCHANGED <<sbVars, urlVars, qVars>>

\* the project added to the context before _load() is called
project_register_early ==
    /\ loadPc = "config"
    /\ ~registered
    /\ registered' = TRUE
    /\ UNCHANGED <<loadPc, format_version, plugins, source_format_versions,
                   element_format_versions, plugin_source_origins,
                   plugin_element_origins, ref_storage, loadError>>
    /\ UNCHANGED <<sbVars, urlVars, qVars>>

\* __init__(), line 120: _load() returned, the project is added to the context
project_register ==
    /\ loadPc = "register"
    /\ registered' = TRUE
    /\ loadPc' = "loaded"
    /\ UNCHANGED <<format_version, plugins, source_format_versions,
                   element_format_versions, plugin_source_origins,
                   plugin_element_origins, ref_storage, loadError>>
    /\ UNCHANGED <<sbVars, urlVars, qVars>>

NextLoad ==
    \/ load_config
    \/ load_version
    \/ load_plugin_origin
    \/ load_plugins_end
    \/ load_settings
    \/ project_register

SpecLoad == InitLoad /\ [][NextLoad]_vars

-----------------------------------------------------------------------------
(***************************************************************************)
(* FetchQueue and ArtifactFetchQueue, driven by the scheduler              *)
(***************************************************************************)

\* Consistency, the ordered states of a source
INCONSISTENT == 0
RESOLVED == 1
CACHED == 2

Consistencies == {INCONSISTENT, RESOLVED, CACHED}

\* the elements of the pipeline
Elements == {"base", "app"}

\* the queue chain: artifacts are pulled first, then sources are fetched;
\* an element at position Len(QueueChain) + 1 has cleared both queues
QueueChain == <<"ArtifactFetchQueue", "FetchQueue">>

QueueIndex(name) == CHOOSE i \in 1..Len(QueueChain) : QueueChain[i] = name

\* Source._bump_consistency: a source's consistency only ever goes up
bump_consistency(cur, new) == IF new > cur THEN new ELSE cur

\* Element._consistency: the lowest consistency among the sources, CACHED
\* for an element without sources
element_consistency(cons) ==
    IF cons = <<>> THEN CACHED
    ELSE CHOOSE c \in Range(cons) : \A d \in Range(cons) : c <= d

\* Element._cached(recalculate): the remembered answer, asking the artifact
\* store when there is none yet or when recalculate is set.  Gives the
\* answer and what is remembered afterwards.
element_cached(memo, inStore, recalculate) ==
    LET asked == IF inStore THEN "True" ELSE "False"
        now == IF recalculate \/ memo = "Unknown" THEN asked ELSE memo
    IN  [value |-> (now = "True"), memo |-> now]

\* FetchQueue.skip answering from skip_cached and _cached() alone
FetchQueue_skip_cachedOnly(skipc, memo, inStore, cons) ==
    IF skipc
    THEN element_cached(memo, inStore, FALSE)
    ELSE [value |-> FALSE, memo |-> memo]

\* FetchQueue.skip consulting _cached() whether skip_cached is set or not
FetchQueue_skip_ignoresFlag(skipc, memo, inStore, cons) ==
    LET c == element_cached(memo, inStore, FALSE)
    IN  IF c.value
        THEN [value |-> TRUE, memo |-> c.memo]
        ELSE [value |-> element_consistency(cons) = CACHED, memo |-> c.memo]

\* FetchQueue.skip: the answer and what the element remembers afterwards
FetchQueue_skip(skipc, memo, inStore, cons) ==
    IF skipc
    THEN LET c == element_cached(memo, inStore, FALSE)
         IN  IF c.value
             THEN [value |-> TRUE, memo |-> c.memo]
             ELSE [value |-> element_consistency(cons) = CACHED, memo |-> c.memo]
    ELSE [value |-> element_consistency(cons) = CACHED, memo |-> memo]

\* FetchQueue.done bumping the sources whatever the return code is
FetchQueue_done_anyCode(cons, rc) ==
    [ret |-> IF rc # 0 THEN "False" ELSE "True",
     cons |-> [i \in 1..Len(cons) |-> bump_consistency(cons[i], CACHED)]]

\* FetchQueue.done bumping the sources to RESOLVED only
FetchQueue_done_resolved(cons, rc) ==
    IF rc # 0
    THEN [ret |-> "False", cons |-> cons]
    ELSE [ret |-> "True",
          cons |-> [i \in 1..Len(cons) |-> bump_consistency(cons[i], RESOLVED)]]

\* FetchQueue.done assigning RESOLVED to every source instead of bumping
FetchQueue_done_assign(cons, rc) ==
    IF rc # 0
    THEN [ret |-> "False", cons |-> cons]
    ELSE [ret |-> "True", cons |-> [i \in 1..Len(cons) |-> RESOLVED]]

\* FetchQueue.done: the value returned and the sources afterwards
FetchQueue_done(cons, rc) ==
    IF rc # 0
    THEN [ret |-> "False", cons |-> cons]
    ELSE [ret |-> "True",
          cons |-> [i \in 1..Len(cons) |-> bump_consistency(cons[i], CACHED)]]

\* ArtifactFetchQueue.skip
ArtifactFetchQueue_skip(memo, inStore) == element_cached(memo, inStore, FALSE)

\* ArtifactFetchQueue.done asking _cached() without recalculate
ArtifactFetchQueue_done_noRecalc(memo, inStore, rc) ==
    IF rc # 0
    THEN [ret |-> "None", memo |-> memo]
    ELSE [ret |-> "None", memo |-> element_cached(memo, inStore, FALSE).memo]

\* ArtifactFetchQueue.done: the value returned (the method has no return
\* value on either path, so None) and what the element remembers afterwards
ArtifactFetchQueue_done(memo, inStore, rc) ==
    IF rc # 0
    THEN [ret |-> "None", memo |-> memo]
    ELSE [ret |-> "None", memo |-> element_cached(memo, inStore, TRUE).memo]

\* skip() of the queue at position q for element e
Skip(q, e) ==
    IF QueueChain[q] = "FetchQueue"
    THEN FetchQueue_skip(skip_cached, cached[e], e \in store, consistency[e])
    ELSE ArtifactFetchQueue_skip(cached[e], e \in store)

\* the scheduler promoting on the return code alone
job_done_promotes_anyResult(rc, ret) == rc = 0

\* The scheduler's verdict on a finished job: the element is promoted when
\* the return code is zero and done returned true, and failed otherwise.
job_done_promotes(rc, ret) == rc = 0 /\ ret = "True"

InFlight == {e \in DOMAIN qstate : qstate[e] = "inflight"}

\* position of the BUILD queue, behind the fetch queues
BuildQ == Len(QueueChain) + 1

\* FetchQueue.queue_type declared as BUILD
FetchQueue_queue_type_build == "BUILD"

\* FetchQueue.queue_type
FetchQueue_queue_type == "FETCH"

\* ArtifactFetchQueue.queue_type
ArtifactFetchQueue_queue_type == "FETCH"

\* the queue-type tag of the queue at position q
queue_type(q) ==
    IF q = BuildQ THEN "BUILD"
    ELSE IF QueueChain[q] = "FetchQueue" THEN FetchQueue_queue_type
    ELSE ArtifactFetchQueue_queue_type

\* the concurrency limit of a queue type
JobLimit(type) == IF type = "FETCH" THEN FetchJobs ELSE BuildJobs

\* the elements in flight in queues of one type
InFlightOf(type) ==
    {e \in DOMAIN qstate : qstate[e] = "inflight" /\ queue_type(queue[e]) = type}

\* the elements that build-depend on an element of S
DirectDependents(S, dp) == {b \in DOMAIN dp : dp[b] \cap S # {}}

RECURSIVE Reach(_, _)
\* S with everything that depends on it, directly or through others
Reach(S, dp) ==
    LET n == S \cup DirectDependents(S, dp)
    IN  IF n = S THEN S ELSE Reach(n, dp)

\* only the elements that depend on e directly
Dependents_direct(e, dp) == DirectDependents({e}, dp)

\* the elements that transitively depend on e
Dependents(e, dp) == Reach({e}, dp) \ {e}

InChain(e) == queue[e] <= Len(QueueChain)

\* a pipeline as loaded: every element waits in the first queue
InitQueue ==
    /\ skip_cached \in BOOLEAN
    /\ consistency \in [Elements -> UNION {[1..n -> Consistencies] : n \in 0..MaxSources}]
    /\ store \in SUBSET Elements
    /\ remote \in SUBSET Elements
    /\ cached = [e \in Elements |-> "Unknown"]
    /\ queue = [e \in Elements |-> 1]
    /\ qstate = [e \in Elements |-> "waiting"]
    /\ returncode = [e \in Elements |-> 0]
    /\ doneRan = [e \in Elements |-> {}]
    /\ skipped = [e \in Elements |-> {}]
    /\ processed = [e \in Elements |-> {}]
    /\ deps = [e \in Elements |-> {}]
    /\ blocked = {}
    /\ SandboxIdle
    /\ UrlIdle
    /\ LoadIdle

\* the scheduler finds skip() true: the element goes to the next queue
QueueSkip ==
    \E e \in DOMAIN queue :
        /\ InChain(e)
        /\ qstate[e] = "waiting"
        /\ Skip(queue[e], e).value
        /\ e \notin blocked
        /\ cached' = [cached EXCEPT ![e] = Skip(queue[e], e).memo]
        /\ skipped' = [skipped EXCEPT ![e] = @ \cup {queue[e]}]
        /\ queue' = [queue EXCEPT ![e] = @ + 1]
        /\ UNCHANGED <<skip_cached, consistency, store, remote, qstate,
                       returncode, doneRan, processed, deps, blocked>>
        /\ UNCHANGED <<sbVars, urlVars, ldVars>>

\* the scheduler finds skip() false and has a free job of the queue's type:
\* the element is handed to a worker, which runs process()
QueueDispatch ==
    \E e \in DOMAIN queue :
        /\ InChain(e)
        /\ qstate[e] = "waiting"
        /\ ~Skip(queue[e], e).value
        /\ e \notin blocked
        /\ Cardinality(InFlightOf(queue_type(queue[e])))
              < JobLimit(queue_type(queue[e]))
        /\ cached' = [cached EXCEPT ![e] = Skip(queue[e], e).memo]
        /\ qstate' = [qstate EXCEPT ![e] = "inflight"]
        /\ processed' = [processed EXCEPT ![e] = @ \cup {queue[e]}]
        /\ UNCHANGED <<skip_cached, consistency, store, remote, queue,
                       returncode, doneRan, skipped, deps, blocked>>
        /\ UNCHANGED <<sbVars, urlVars, ldVars>>

\* ArtifactFetchQueue.process in a worker: element._fetch() pulls the
\* artifact when a remote has it, ends with code 0 also when none has it,
\* and ends with a non-zero code when the pull fails
ProcessPull ==
    \E e \in DOMAIN queue, rc \in {0, 1} :
        /\ InChain(e)
        /\ qstate[e] = "inflight"
        /\ QueueChain[queue[e]] = "ArtifactFetchQueue"
        /\ store' = IF rc = 0 /\ e \in remote THEN store \cup {e} ELSE store
        /\ returncode' = [returncode EXCEPT ![e] = rc]
        /\ qstate' = [qstate EXCEPT ![e] = "finished"]
        /\ UNCHANGED <<skip_cached, consistency, remote, cached, queue,
                       doneRan, skipped, processed, deps, blocked>>
        /\ UNCHANGED <<sbVars, urlVars, ldVars>>

\* FetchQueue.process in a worker: source._fetch() for every source; the
\* worker's copies of the sources are not the scheduler's
ProcessFetch ==
    \E e \in DOMAIN queue, rc \in {0, 1} :
        /\ InChain(e)
        /\ qstate[e] = "inflight"
        /\ QueueChain[queue[e]] = "FetchQueue"
        /\ returncode' = [returncode EXCEPT ![e] = rc]
        /\ qstate' = [qstate EXCEPT ![e] = "finished"]
        /\ UNCHANGED <<skip_cached, consistency, store, remote, cached, queue,
                       doneRan, skipped, processed, deps, blocked>>
        /\ UNCHANGED <<sbVars, urlVars, ldVars>>

\* the scheduler takes the completion of a source fetch: FetchQueue.done,
\* then promotion or failure
FetchJobDone ==
    \E e \in DOMAIN queue :
        /\ InChain(e)
        /\ qstate[e] = "finished"
        /\ QueueChain[queue[e]] = "FetchQueue"
        /\ LET d == FetchQueue_done(consistency[e], returncode[e]) IN
            /\ consistency' = [consistency EXCEPT ![e] = d.cons]
            /\ doneRan' = [doneRan EXCEPT ![e] = @ \cup
                    {[q |-> queue[e], rc |-> returncode[e], ret |-> d.ret]}]
            /\ IF job_done_promotes(returncode[e], d.ret)
               THEN /\ queue' = [queue EXCEPT ![e] = @ + 1]
                    /\ qstate' = [qstate EXCEPT ![e] = "waiting"]
               ELSE /\ queue' = queue
                    /\ qstate' = [qstate EXCEPT ![e] = "failed"]
            /\ blocked' = IF job_done_promotes(returncode[e], d.ret)
                          THEN blocked
                          ELSE blocked \cup Dependents(e, deps)
        /\ UNCHANGED <<skip_cached, store, remote, cached, returncode, skipped,
                       processed, deps>>
        /\ UNCHANGED <<sbVars, urlVars, ldVars>>

\* the scheduler takes the completion of an artifact pull:
\* ArtifactFetchQueue.done, then promotion or failure
PullJobDone ==
    \E e \in DOMAIN queue :
        /\ InChain(e)
        /\ qstate[e] = "finished"
        /\ QueueChain[queue[e]] = "ArtifactFetchQueue"
        /\ LET d == ArtifactFetchQueue_done(cached[e], e \in store, returncode[e]) IN
            /\ cached' = [cached EXCEPT ![e] = d.memo]
            /\ doneRan' = [doneRan EXCEPT ![e] = @ \cup
                    {[q |-> queue[e], rc |-> returncode[e], ret |-> d.ret]}]
            /\ IF job_done_promotes(returncode[e], d.ret)
               THEN /\ queue' = [queue EXCEPT ![e] = @ + 1]
                    /\ qstate' = [qstate EXCEPT ![e] = "waiting"]
               ELSE /\ queue' = queue
                    /\ qstate' = [qstate EXCEPT ![e] = "failed"]
            /\ blocked' = IF job_done_promotes(returncode[e], d.ret)
                          THEN blocked
                          ELSE blocked \cup Dependents(e, deps)
        /\ UNCHANGED <<skip_cached, consistency, store, remote, returncode,
                       skipped, processed, deps>>
        /\ UNCHANGED <<sbVars, urlVars, ldVars>>

NextQueue ==
    \/ QueueSkip
    \/ QueueDispatch
    \/ ProcessPull
    \/ ProcessFetch
    \/ FetchJobDone
    \/ PullJobDone

SpecQueue == InitQueue /\ [][NextQueue]_vars

-----------------------------------------------------------------------------
(***************************************************************************)
(* The fetch queues in front of a BUILD queue, keep-going mode             *)
(***************************************************************************)

\* the elements of the dependency graphs
GraphElements == {"A", "B", "C"}

\* the chain A -> B -> C: A is a build dependency of B, B one of C
ChainDeps == [e \in GraphElements |->
                 IF e = "B" THEN {"A"} ELSE IF e = "C" THEN {"B"} ELSE {}]

\* A is a build dependency of B; C depends on nothing
PairDeps == [e \in GraphElements |-> IF e = "B" THEN {"A"} ELSE {}]

\* BuildQueue.skip: an element whose artifact is cached is not built
BuildQueue_skip(memo, inStore) == element_cached(memo, inStore, FALSE)

\* BuildQueue.ready with the build dependencies left out
BuildQueue_ready_noDeps(e) == element_consistency(consistency[e]) = CACHED

\* BuildQueue.ready: every build dependency is cached and the sources of the
\* element are CACHED
BuildQueue_ready(e) ==
    /\ \A d \in deps[e] : element_cached(cached[d], d \in store, FALSE).value
    /\ element_consistency(consistency[e]) = CACHED

\* BuildQueue.done: the value returned and what the element remembers
BuildQueue_done(memo, inStore, rc) ==
    IF rc # 0
    THEN [ret |-> "False", memo |-> memo]
    ELSE [ret |-> "True", memo |-> element_cached(memo, inStore, TRUE).memo]

\* A pipeline over a dependency graph.  The queue list of the run is either
\* pull, fetch, build or fetch, build: the elements wait in its first queue.
InitSched ==
    /\ skip_cached \in BOOLEAN
    /\ consistency = [e \in GraphElements |-> <<RESOLVED>>]
    /\ store \in SUBSET GraphElements
    /\ remote = {}
    /\ cached = [e \in GraphElements |-> "Unknown"]
    /\ \E first \in 1..Len(QueueChain) : queue = [e \in GraphElements |-> first]
    /\ qstate = [e \in GraphElements |-> "waiting"]
    /\ returncode = [e \in GraphElements |-> 0]
    /\ doneRan = [e \in GraphElements |-> {}]
    /\ skipped = [e \in GraphElements |-> {}]
    /\ processed = [e \in GraphElements |-> {}]
    /\ deps \in {ChainDeps, PairDeps}
    /\ blocked = {}
    /\ SandboxIdle
    /\ UrlIdle
    /\ LoadIdle

\* the scheduler finds BuildQueue.skip() true: the element leaves the queue
BuildSkip ==
    \E e \in DOMAIN queue :
        /\ queue[e] = BuildQ
        /\ qstate[e] = "waiting"
        /\ e \notin blocked
        /\ BuildQueue_skip(cached[e], e \in store).value
        /\ cached' = [cached EXCEPT ![e] = BuildQueue_skip(cached[e], e \in store).memo]
        /\ skipped' = [skipped EXCEPT ![e] = @ \cup {BuildQ}]
        /\ queue' = [queue EXCEPT ![e] = @ + 1]
        /\ UNCHANGED <<skip_cached, consistency, store, remote, qstate,
                       returncode, doneRan, processed, deps, blocked>>
        /\ UNCHANGED <<sbVars, urlVars, ldVars>>

\* the scheduler finds the element ready, not to be skipped, and has a free
\* BUILD job: the element is handed to a worker, which runs process()
BuildDispatch ==
    \E e \in DOMAIN queue :
        /\ queue[e] = BuildQ
        /\ qstate[e] = "waiting"
        /\ e \notin blocked
        /\ ~BuildQueue_skip(cached[e], e \in store).value
        /\ BuildQueue_ready(e)
        /\ Cardinality(InFlightOf("BUILD")) < JobLimit("BUILD")
        /\ cached' = [d \in DOMAIN cached |->
                        IF d = e \/ d \in deps[e]
                        THEN element_cached(cached[d], d \in store, FALSE).memo
                        ELSE cached[d]]
        /\ qstate' = [qstate EXCEPT ![e] = "inflight"]
        /\ processed' = [processed EXCEPT ![e] = @ \cup {BuildQ}]
        /\ UNCHANGED <<skip_cached, consistency, store, remote, queue,
                       returncode, doneRan, skipped, deps, blocked>>
        /\ UNCHANGED <<sbVars, urlVars, ldVars>>

\* BuildQueue.process in a worker: the element is assembled in a sandbox
\* and, when that succeeds, its artifact is committed to the local store
ProcessBuild ==
    \E e \in DOMAIN queue, rc \in {0, 1} :
        /\ queue[e] = BuildQ
        /\ qstate[e] = "inflight"
        /\ store' = IF rc = 0 THEN store \cup {e} ELSE store
        /\ returncode' = [returncode EXCEPT ![e] = rc]
        /\ qstate' = [qstate EXCEPT ![e] = "finished"]
        /\ UNCHANGED <<skip_cached, consistency, remote, cached, queue,
                       doneRan, skipped, processed, deps, blocked>>
        /\ UNCHANGED <<sbVars, urlVars, ldVars>>

\* the scheduler takes the completion of a build: BuildQueue.done, then the
\* element leaves the queue or is marked failed and its dependents blocked
BuildJobDone ==
    \E e \in DOMAIN queue :
        /\ queue[e] = BuildQ
        /\ qstate[e] = "finished"
        /\ LET d == BuildQueue_done(cached[e], e \in store, returncode[e]) IN
            /\ cached' = [cached EXCEPT ![e] = d.memo]
            /\ doneRan' = [doneRan EXCEPT ![e] = @ \cup
                    {[q |-> BuildQ, rc |-> returncode[e], ret |-> d.ret]}]
            /\ IF job_done_promotes(returncode[e], d.ret)
               THEN /\ queue' = [queue EXCEPT ![e] = @ + 1]
                    /\ qstate' = [qstate EXCEPT ![e] = "waiting"]
                    /\ blocked' = blocked
               ELSE /\ queue' = queue
                    /\ qstate' = [qstate EXCEPT ![e] = "failed"]
                    /\ blocked' = blocked \cup Dependents(e, deps)
        /\ UNCHANGED <<skip_cached, consistency, store, remote, returncode,
                       skipped, processed, deps>>
        /\ UNCHANGED <<sbVars, urlVars, ldVars>>

NextSched ==
    \/ QueueSkip
    \/ QueueDispatch
    \/ ProcessPull
    \/ ProcessFetch
    \/ FetchJobDone
    \/ PullJobDone
    \/ BuildSkip
    \/ BuildDispatch
    \/ ProcessBuild
    \/ BuildJobDone

SpecSched == InitSched /\ [][NextSched]_vars

(***************************************************************************)
(* Properties of the fetch queues                                          *)
(***************************************************************************)

FetchQ == QueueIndex("FetchQueue")
PullQ == QueueIndex("ArtifactFetchQueue")

\* done() of queue q ran for element e with return code zero
DoneZero(e, q) == \E r \in doneRan[e] : r.q = q /\ r.rc = 0

\* C6: once FetchQueue.done has run for an element with return code 0, every
\* source of the element is CACHED, so is the element, done returned true
\* and the element has left the queue for the next one.
C6_FetchDoneCaches ==
    \A e \in DOMAIN queue :
        \A r \in doneRan[e] :
            (r.q = FetchQ /\ r.rc = 0) =>
                /\ \A i \in 1..Len(consistency[e]) : consistency[e][i] = CACHED
                /\ element_consistency(consistency[e]) = CACHED
                /\ r.ret = "True"
                /\ queue[e] > FetchQ
                /\ qstate[e] # "failed"

\* C6 witness: an element with two sources went through process and done of
\* the source-fetch queue with return code 0.
C6_Witness ==
    \E e \in DOMAIN queue :
        /\ DoneZero(e, FetchQ)
        /\ FetchQ \in processed[e]
        /\ Len(consistency[e]) >= 2

\* C7: in either queue, the scheduler's step for a job that ended with a
\* non-zero return code marks the element failed, leaves it in its queue,
\* and changes neither the consistency of its sources nor what it
\* remembers about being cached.
C7_NonZeroFails ==
    [][\A e \in DOMAIN queue :
          (qstate[e] = "finished" /\ returncode[e] # 0 /\ qstate'[e] # "finished") =>
              /\ qstate'[e] = "failed"
              /\ queue'[e] = queue[e]
              /\ consistency'[e] = consistency[e]
              /\ cached'[e] = cached[e]
              /\ \E r \in doneRan'[e] : r.q = queue[e] /\ r.rc # 0 /\ r.ret # "True"]_vars

\* C7 witness: one element failed in the artifact-fetch queue and another in
\* the source-fetch queue, both after done ran with a non-zero return code,
\* the latter with a source that is not CACHED.
C7_Witness ==
    \E e1, e2 \in DOMAIN queue :
        /\ qstate[e1] = "failed" /\ queue[e1] = PullQ
        /\ \E r \in doneRan[e1] : r.q = PullQ /\ r.rc # 0
        /\ qstate[e2] = "failed" /\ queue[e2] = FetchQ
        /\ \E r \in doneRan[e2] : r.q = FetchQ /\ r.rc # 0
        /\ element_consistency(consistency[e2]) # CACHED

\* C8: an element whose artifact pull ended with return code 0 has had
\* ArtifactFetchQueue.done return true, is promoted out of the
\* artifact-fetch queue and is not marked failed.
C8_PullZeroPromoted ==
    \A e \in DOMAIN queue :
        \A r \in doneRan[e] :
            (r.q = PullQ /\ r.rc = 0) =>
                /\ r.ret = "True"
                /\ queue[e] > PullQ
                /\ qstate[e] # "failed"

\* C9: once ArtifactFetchQueue.done has run for an element with return code
\* 0, what the element remembers about being cached is what the artifact
\* store holds: cached if the pull put the artifact there, not cached if
\* the pull found nothing.
C9_CachedRequeried ==
    \A e \in DOMAIN queue :
        DoneZero(e, PullQ) =>
            cached[e] = IF e \in store THEN "True" ELSE "False"

\* C9 witness: an element that was not cached when the queue looked at it
\* (so it was processed) is cached after a pull with return code 0.
C9_Witness ==
    \E e \in DOMAIN queue :
        /\ DoneZero(e, PullQ)
        /\ PullQ \in processed[e]
        /\ cached[e] = "True"

\* C10 as stated: an element is past queue q only if q's done callback has
\* been executed for it, skipped elements included.
C10_DoneBeforeNext ==
    \A e \in DOMAIN queue :
        \A q \in 1..Len(QueueChain) :
            queue[e] > q => \E r \in doneRan[e] : r.q = q

\* C10 amended: an element is past queue q only if either q's skip returned
\* true for it, in which case neither process nor done of q was executed
\* for it, or q's done callback was executed for it with return code 0 and
\* returned true.
C10_DoneOrSkippedBeforeNext ==
    \A e \in DOMAIN queue :
        \A q \in 1..Len(QueueChain) :
            /\ queue[e] > q =>
                  \/ q \in skipped[e]
                  \/ \E r \in doneRan[e] : r.q = q /\ r.rc = 0 /\ r.ret = "True"
            /\ q \in skipped[e] =>
                  /\ q \notin processed[e]
                  /\ \A r \in doneRan[e] : r.q # q

\* C10 witness: an element was skipped by the artifact-fetch queue and left
\* the source-fetch queue through process and done.
C10_Witness ==
    \E e \in DOMAIN queue :
        /\ queue[e] > FetchQ
        /\ PullQ \in skipped[e]
        /\ FetchQ \in processed[e]
        /\ DoneZero(e, FetchQ)

-----------------------------------------------------------------------------
\* C11: in every step of a run no source's consistency decreases, a source
\* that is CACHED stays CACHED, and no element's cached answer goes from
\* true to false, the steps in which done re-queries the store included.
C11_Monotonic ==
    [][\A e \in DOMAIN queue :
         /\ Len(consistency'[e]) = Len(consistency[e])
         /\ \A i \in 1..Len(consistency[e]) :
               /\ consistency'[e][i] >= consistency[e][i]
               /\ consistency[e][i] = CACHED => consistency'[e][i] = CACHED
         /\ cached[e] = "True" => cached'[e] = "True"]_vars

\* C11 witness: one element with two sources had its fetch post-processed
\* with return code 0, which bumped its sources to CACHED, and another
\* element's pull was post-processed, re-querying the store with
\* recalculate, and its cached answer is true.
C11_Witness ==
    /\ \E e \in DOMAIN queue :
         /\ DoneZero(e, FetchQ)
         /\ Len(consistency[e]) >= 2
         /\ element_consistency(consistency[e]) = CACHED
    /\ \E e \in DOMAIN queue : DoneZero(e, PullQ) /\ cached[e] = "True"

\* C12: an element for which skip returned true moves to the next queue in
\* that very step, waiting there, and process of the skipping queue is never
\* run for it; the artifact-fetch queue only starts process for an element
\* that is not in the local artifact cache, and the source-fetch queue only
\* for an element whose consistency is not CACHED.
C12_SkipNeverProcesses ==
    [][\A e \in DOMAIN queue :
         /\ \A q \in skipped'[e] \ skipped[e] :
               /\ queue[e] = q /\ queue'[e] = q + 1
               /\ qstate'[e] = "waiting"
               /\ processed'[e] = processed[e]
         /\ \A q \in skipped[e] : q \notin processed'[e]
         /\ PullQ \in processed'[e] \ processed[e] => e \notin store
         /\ FetchQ \in processed'[e] \ processed[e] =>
               element_consistency(consistency[e]) # CACHED]_vars

\* C12 witness: an element in the local artifact cache with CACHED sources
\* was skipped by both queues and no process was ever run for it.
C12_Witness ==
    \E e \in DOMAIN queue :
        /\ skipped[e] = {PullQ, FetchQ}
        /\ processed[e] = {}
        /\ e \in store
        /\ Len(consistency[e]) >= 1
        /\ queue[e] = Len(QueueChain) + 1

\* what the claim gives for skip: skip_cached with a cached artifact, or
\* sources that are all CACHED
SkipExpected(skipc, isCached, cons) ==
    (skipc /\ isCached) \/ element_consistency(cons) = CACHED

\* C22: for every element, FetchQueue.skip answers true exactly when
\* skip_cached is set and _cached() answers true, or the element's
\* consistency is CACHED; an element without sources is always skipped;
\* with skip_cached unset an element whose artifact is cached but whose
\* sources are not all CACHED is not skipped.  What the queue did agrees:
\* an element it skipped satisfies the condition against the local store,
\* and an element it handed to a worker does not.
C22_SkipExactly ==
    \A e \in DOMAIN queue :
        LET sk == Skip(FetchQ, e).value
            c  == element_cached(cached[e], e \in store, FALSE).value
        IN  /\ sk <=> SkipExpected(skip_cached, c, consistency[e])
            /\ consistency[e] = <<>> => sk
            /\ (~skip_cached /\ c /\ element_consistency(consistency[e]) # CACHED)
                  => ~sk
            /\ FetchQ \in skipped[e] =>
                  SkipExpected(skip_cached, e \in store, consistency[e])
            /\ (queue[e] = FetchQ /\ qstate[e] = "inflight") =>
                  ~SkipExpected(skip_cached, e \in store, consistency[e])

\* C22 witness: with skip_cached unset, an element with a cached artifact
\* and a source that is not CACHED was handed to a fetch worker, and an
\* element without sources was skipped by the source-fetch queue.
C22_Witness ==
    /\ ~skip_cached
    /\ \E e \in DOMAIN queue :
         /\ queue[e] = FetchQ /\ qstate[e] = "inflight"
         /\ e \in store
         /\ element_consistency(consistency[e]) # CACHED
    /\ \E e \in DOMAIN queue :
         FetchQ \in skipped[e] /\ consistency[e] = <<>>

(***************************************************************************)
(* Properties of the queues under the scheduler                            *)
(***************************************************************************)

\* the elements in flight in the artifact-fetch and the source-fetch queue
InFlightFetching ==
    {e \in DOMAIN queue : qstate[e] = "inflight" /\ queue[e] \in {PullQ, FetchQ}}

\* the elements in flight in the BUILD queue
InFlightBuilding ==
    {e \in DOMAIN queue : qstate[e] = "inflight" /\ queue[e] = BuildQ}

RECURSIVE AllDeps(_)
\* S with every element that an element of S build-depends on
AllDeps(S) ==
    LET n == S \cup UNION {deps[x] : x \in S}
    IN  IF n = S THEN S ELSE AllDeps(n)

\* b depends on a, directly or through other elements
DependsOn(b, a) == a \in AllDeps(deps[b])

\* the elements marked failed
Failed == {e \in DOMAIN queue : qstate[e] = "failed"}

\* C16: at every moment the elements in flight in the artifact-fetch queue
\* and in the source-fetch queue together are at most the fetch job limit,
\* whatever is in flight in the BUILD queue, which has its own limit.
C16_SharedFetchBudget ==
    /\ Cardinality(InFlightFetching) <= FetchJobs
    /\ Cardinality(InFlightBuilding) <= BuildJobs

\* C16 witness: the fetch job limit is used up by fetches while an element
\* is in flight in the BUILD queue.
C16_Witness ==
    /\ Cardinality(InFlightFetching) = FetchJobs
    /\ InFlightBuilding # {}

\* C17: whenever process of the BUILD queue has started for B, the done
\* callback of the BUILD queue has already run for every build dependency A
\* of B.
C17_DepDoneBeforeProcess ==
    \A b \in DOMAIN queue : \A a \in deps[b] :
        BuildQ \in processed[b] => \E r \in doneRan[a] : r.q = BuildQ

\* C17 as amended: whenever process of the BUILD queue has started for B,
\* every build dependency A of B is cached in the local store, and if the
\* BUILD queue has processed A at all then its done callback has already
\* run for A, with return code 0, and returned true.
C17_DepCachedBeforeProcess ==
    \A b \in DOMAIN queue : \A a \in deps[b] :
        BuildQ \in processed[b] =>
            /\ a \in store
            /\ cached[a] = "True"
            /\ BuildQ \in processed[a] =>
                  [q |-> BuildQ, rc |-> 0, ret |-> "True"] \in doneRan[a]

\* C17 witness: B's build was started after its dependency A was built in
\* the same run.
C17_Witness ==
    \E b \in DOMAIN queue : \E a \in deps[b] :
        /\ BuildQ \in processed[b]
        /\ BuildQ \in processed[a]
        /\ DoneZero(a, BuildQ)

\* C18: once an element has failed, no element that transitively depends on
\* it has ever been dispatched to a worker, and each of them is reported as
\* blocked; elements that depend on no failed element are not blocked; and
\* in the chain A, B, C with A failed, a run that has come to rest has one
\* failure and two blocked elements.
C18_DependentsNeverDispatched ==
    /\ \A a \in Failed : \A b \in DOMAIN queue :
          DependsOn(b, a) => (processed[b] = {} /\ b \in blocked)
    /\ blocked = {b \in DOMAIN queue : \E a \in Failed : DependsOn(b, a)}
    /\ (deps = ChainDeps /\ "A" \in Failed /\ ~ENABLED NextSched) =>
          (Cardinality(Failed) = 1 /\ Cardinality(blocked) = 2)

\* C18 as amended: an element whose job ended with a non-zero return code,
\* or whose done did not return true, is failed, and from then on every
\* element that transitively depends on it is reported as blocked and is
\* neither dispatched to a worker nor moved to another queue; elements
\* that depend on no failed element are not blocked; and in the chain A, B,
\* C, when A is the only failed element, B and C are the blocked ones.
C18_BlockedAfterFailure ==
    [][/\ \A b \in blocked :
            /\ ~(qstate[b] = "waiting" /\ qstate'[b] = "inflight")
            /\ qstate[b] = "waiting" => queue'[b] = queue[b]
            /\ b \in blocked'
       /\ \A a \in DOMAIN queue :
            (\E r \in doneRan'[a] : r.rc # 0 \/ r.ret # "True") =>
                /\ qstate'[a] = "failed"
                /\ \A b \in DOMAIN queue : DependsOn(b, a) => b \in blocked'
       /\ blocked' = {b \in DOMAIN queue :
                        \E a \in DOMAIN queue :
                            qstate'[a] = "failed" /\ DependsOn(b, a)}
       /\ (deps = ChainDeps /\ {a \in DOMAIN queue : qstate'[a] = "failed"} = {"A"})
             => blocked' = {"B", "C"}]_vars

\* C18 witness: in the chain A, B, C the fetch of A failed after B had been
\* handed to a worker for its own fetch; the run has come to rest with A
\* the only failure and with B and C blocked.
C18_Witness ==
    /\ deps = ChainDeps
    /\ Failed = {"A"}
    /\ blocked = {"B", "C"}
    /\ processed["A"] = {FetchQ}
    /\ FetchQ \in processed["B"]
    /\ \A e \in DOMAIN queue : qstate[e] \in {"waiting", "failed"}

(***************************************************************************)
(* Properties of Project._load                                             *)
(***************************************************************************)

\* origins i < j of the list read so far that list a common kind in `group`
Duplicate(group) ==
    \E i, j \in 1..Len(plugins) :
        i < j /\ plugins[i][group] \cap plugins[j][group] # {}

\* the kinds listed in `group` by the origins read so far
Listed(group) == UNION {plugins[i][group] : i \in 1..Len(plugins)}

\* dict records for every kind listed in `group` the version declared by the
\* one origin that lists it
RecordedOnce(dict, group) ==
    /\ DOMAIN dict = Listed(group)
    /\ \A k \in Listed(group) :
         /\ Cardinality({i \in 1..Len(plugins) : k \in plugins[i][group]}) = 1
         /\ \E i \in 1..Len(plugins) :
               k \in plugins[i][group] /\ dict[k] = DeclaredVersion(i)

\* C19: once the declared format-version was read, the load has failed with
\* LoadError UNSUPPORTED_PROJECT exactly when that version is greater than
\* the supported version 6; no load whose declared version is 6 or lower,
\* and no load that ended before the version was read, has that error.
C19_UnsupportedVersion ==
    /\ BST_FORMAT_VERSION = 6
    /\ (loadError.reason = "UNSUPPORTED_PROJECT")
          <=> (format_version # Unread /\ format_version > 6)
    /\ loadError.reason = "UNSUPPORTED_PROJECT" => loadPc = "failed"

\* C19 witness: a load failed as unsupported on the declared version 7.
C19_Witness ==
    /\ loadPc = "failed"
    /\ format_version = 7
    /\ loadError = LoadError("UNSUPPORTED_PROJECT", "version")

\* C20: as soon as two origins read list the same source kind, or the same
\* element kind, the load has failed with a LoadError; the duplicate errors
\* are only raised for such a listing, so a name listed once as a source
\* kind and once as an element kind is not one; and after a successful load
\* every listed source kind and every listed element kind has exactly one
\* recorded format version, the one its only origin declares.
C20_DuplicateListing ==
    /\ (Duplicate("sources") \/ Duplicate("elements")) =>
          (loadPc = "failed" /\ loadError # NoLoadError)
    /\ loadError.detail = "dup source" => Duplicate("sources")
    /\ loadError.detail = "dup element" => Duplicate("elements")
    /\ loadPc = "loaded" =>
          /\ RecordedOnce(source_format_versions, "sources")
          /\ RecordedOnce(element_format_versions, "elements")

\* C20 witness: a project was loaded in which one origin lists a name as a
\* source kind and another origin lists the same name as an element kind.
C20_Witness ==
    /\ loadPc = "loaded"
    /\ Len(plugins) = 2
    /\ plugins[1].sources \cap plugins[2].elements # {}
    /\ Cardinality(DOMAIN source_format_versions) = 2

\* C25: the project is in the context's list of projects only when _load
\* has returned, having raised nothing; a project whose _load raised a
\* LoadError, at whichever step, is not in the list, and a project that was
\* loaded completely is.
C25_RegisteredAfterLoad ==
    /\ registered => (loadPc = "loaded" /\ loadError = NoLoadError)
    /\ (loadPc = "failed" \/ loadError # NoLoadError) => ~registered
    /\ loadPc = "loaded" => registered

\* C25 witness: _load raised in its last step, after the version assertion
\* and a plugin origin were passed, and the project is not registered.
C25_Witness ==
    /\ loadPc = "failed"
    /\ loadError = LoadError("INVALID_DATA", "shell")
    /\ Len(plugins) >= 1
    /\ ~registered

(***************************************************************************)
(* Properties of SandboxChroot.run                                         *)
(***************************************************************************)

\* the mount points of the log entries of one kind, in order
LogOf(kind) ==
    LET sel == SelectSeq(log, LAMBDA ev : ev[1] = kind)
    IN  [i \in 1..Len(sel) |-> sel[i][2]]

\* the command was launched and exited with code c
ExitedWith(c) ==
    \E i \in 1..Len(log) :
        log[i][1] = "spawn" /\ log[i][2] = [kind |-> "exit", code |-> c]

\* C1: whenever the command was launched and exited with code c, zero or
\* not, run returns c to its caller instead of raising.
C1_ReturnsExitCode ==
    \A c \in 0..MaxExit :
        (pc = "done" /\ ExitedWith(c)) => result = [how |-> "return", value |-> c]

\* C2: when a non-interactive run has returned or raised, no device node
\* that the run created is left in the sandbox directory.
C2_DevicesRemoved ==
    (pc = "done" /\ ~interactive) =>
        \A d \in Range(LogOf("mknod")) : devfile[d] # "node"

\* C3: when run has returned or raised, nothing the run mounted is still
\* mounted, and the mounts were released in the reverse of the order in
\* which they were established.
C3_MountsReleasedInReverse ==
    pc = "done" =>
        /\ mounts = <<>>
        /\ LogOf("umount") = Reverse(LogOf("mount"))

\* C3 witness: a run that raised because a mount failed part-way through the
\* mount sequence, after the root and at least two more mounts were made.
C3_Witness ==
    /\ pc = "done"
    /\ result = [how |-> "raise", value |-> MountError]
    /\ Len(LogOf("mount")) >= 4
    /\ Len(LogOf("mount")) < Len(MountPlan(interactive, marks))


\* the command was handed to the operating system to be launched
Spawned == \E i \in 1..Len(log) : log[i][1] = "spawn"

\* the mount points of the mounts logged before position i
MountedBefore(i) == {log[j][2] : j \in {k \in 1..(i - 1) : log[k][1] = "mount"}}

\* C13: whenever run raises, what it raises is a structured ElementError and
\* never an unstructured OS-level exception, and the error raised for a
\* permission failure while creating a device node differs from the error
\* raised for any other failure of the creation.
C13_StructuredErrors ==
    /\ (pc = "done" /\ result.how = "raise") => result.value.type # "OSError"
    /\ create_device("absent", "mknod_perm").exc
           # create_device("absent", "mknod_other").exc

\* C14: a read-only remount of the root only happens when ROOT_READ_ONLY is
\* set, and then after every mount of the run (the root, /dev when
\* interactive, /tmp, /proc and every marked directory) was established and
\* before the command is spawned; no mount follows it, the command is not
\* spawned without it, and there is none when ROOT_READ_ONLY is not set.
C14_RemountLast ==
    /\ \A i \in 1..Len(log) :
         log[i][1] = "remount_ro" =>
            /\ readonly
            /\ Range(MountPlan(interactive, marks)) \subseteq MountedBefore(i)
            /\ \A j \in 1..Len(log) :
                  /\ (j < i) => log[j][1] # "spawn"
                  /\ (j > i) => log[j][1] # "mount"
                  /\ (j # i) => log[j][1] # "remount_ro"
    /\ (Spawned /\ readonly) => LogOf("remount_ro") = <<"/">>
    /\ ~readonly => LogOf("remount_ro") = <<>>

\* C14 witness: an interactive run with ROOT_READ_ONLY and a marked
\* directory remounted the root and spawned the command.
C14_Witness ==
    /\ readonly /\ interactive /\ marks # <<>>
    /\ Spawned
    /\ LogOf("remount_ro") = <<"/">>
    /\ pc = "done"

\* C15: a run that is not interactive never mounts the host /dev, and has
\* created the whole fixed list of device nodes by the time the command is
\* spawned; an interactive run never creates a device node, and has mounted
\* the host /dev by the time the command is spawned.
C15_OneDevicePolicy ==
    /\ ~interactive =>
         /\ "/dev" \notin Range(LogOf("mount"))
         /\ Spawned => LogOf("mknod") = DEVICES
    /\ interactive =>
         /\ LogOf("mknod") = <<>>
         /\ devices = <<>>
         /\ Spawned => "/dev" \in Range(LogOf("mount"))

\* C15 witness: a run that is not interactive created the five device nodes,
\* mounted its directories without /dev and spawned the command.
C15_Witness ==
    /\ ~interactive
    /\ Spawned
    /\ LogOf("mknod") = DEVICES
    /\ Len(LogOf("mount")) = Len(MountPlan(interactive, marks))


\* position i of the log holds an event of this kind about x
Logged(i, kind, x) == log[i][1] = kind /\ log[i][2] = x

\* a file was at device location d when run() was called
Preexisting(d) ==
    devfile[d] = "file" \/ \E i \in 1..Len(log) : Logged(i, "remove", d)

\* C23: the stdin chosen for the command is the inherited terminal when
\* INTERACTIVE is set and /dev/null otherwise, it is chosen, and /dev/null
\* is open, when the command is spawned; the command is started in a new
\* session exactly when INTERACTIVE is set; and when run has returned or
\* raised, a /dev/null that it opened is closed.
C23_StdinAndSession ==
    /\ stdin = "tty" => interactive
    /\ stdin \in {"devnull", "closed"} => ~interactive
    /\ pc = "chroot" => stdin = (IF interactive THEN "tty" ELSE "devnull")
    /\ Spawned => (stdin # "unset" /\ session # "unset")
    /\ session # "unset" => (session = "new" <=> interactive)
    /\ pc = "done" => stdin # "devnull"

\* C23 witness: a run that is not interactive spawned the command on
\* /dev/null, raised, and has closed /dev/null.
C23_Witness ==
    /\ pc = "done"
    /\ ~interactive
    /\ Spawned
    /\ session = "inherit"
    /\ result.how = "raise"
    /\ stdin = "closed"

\* C24: the temporary rootfs is removed only when nothing is mounted: every
\* mount made before the removal was released before it, no mount is made
\* or released after it, and when run has returned or raised the rootfs it
\* created is removed.
C24_RootfsRemovedLast ==
    /\ rootfs = "removed" => mounts = <<>>
    /\ \A i \in 1..Len(log) :
         log[i][1] = "rmtree" =>
            /\ MountedBefore(i)
                  = {log[j][2] : j \in {k \in 1..(i - 1) : log[k][1] = "umount"}}
            /\ \A j \in (i + 1)..Len(log) : log[j][1] \notin {"mount", "umount"}
    /\ pc = "done" => rootfs \in {"none", "removed"}

\* C24 witness: a run that had mounted the root and more raised, and has
\* removed its rootfs with every mount released.
C24_Witness ==
    /\ pc = "done"
    /\ result.how = "raise"
    /\ rootfs = "removed"
    /\ Len(LogOf("mount")) >= 4
    /\ Len(LogOf("umount")) = Len(LogOf("mount"))

\* C26: when a run that is not interactive has returned or raised, every
\* file that was at a fixed device location before the run is still there.
C26_ExistingFilesKept ==
    (pc = "done" /\ ~interactive) =>
        \A d \in Range(DEVICES) : Preexisting(d) => devfile[d] = "file"

\* C26 as amended: in a run that is not interactive, a file that was at a
\* fixed device location is removed before the node is created there, so no
\* location for which a node was created still holds a file, a location
\* that still holds its file was not given a node, and after a run that
\* returned normally every fixed device location is empty.
C26_ExistingFilesReplaced ==
    ~interactive =>
        \A d \in Range(DEVICES) :
            /\ (\E i \in 1..Len(log) : Logged(i, "mknod", d)) => devfile[d] # "file"
            /\ devfile[d] = "file" =>
                  ~\E i \in 1..Len(log) : Logged(i, "remove", d)
            /\ (pc = "done" /\ result.how = "return") => devfile[d] = "absent"

\* C26 witness: a run that is not interactive returned normally after it
\* had removed a file that was at a device location; the location is empty.
C26_Witness ==
    /\ pc = "done"
    /\ ~interactive
    /\ result.how = "return"
    /\ \E d \in Range(DEVICES) :
         /\ \E i \in 1..Len(log) : Logged(i, "remove", d)
         /\ devfile[d] = "absent"

=============================================================================
